---- MODULE Spec2Model ----
(***************************************************************************)
(* A model of pyqmc/optimize_ortho.py: the orthogonal-optimization driver  *)
(* (optimize_orthogonal), the correlated sampler (correlated_sample), the  *)
(* distributed wrappers (dist_sample_overlap, dist_correlated_sample) and  *)
(* the checkpoint writer (ortho_hdf).                                      *)
(*                                                                         *)
(* Real numbers are kept exact.  Normalizations and weights are fractions  *)
(* num/den compared by cross-multiplication; Ntarget, Ntol and             *)
(* weight_boundaries are held in hundredths (0.5 is 50, 0.3 is 30).        *)
(*                                                                         *)
(* The wavefunction objects are collaborators outside optimize_ortho.py.   *)
(* The model instantiates them with the two-amplitude picture of the       *)
(* renormalize docstring (lines 326-334): a reference of amplitude a and   *)
(* the active wavefunction of amplitude b = wf1det_coeff give the          *)
(* normalization N = b^2 / (a^2 + b^2).                                    *)
(***************************************************************************)
EXTENDS Integers, Sequences, FiniteSets, TLC

VARIABLES
    \* ---- optimize_orthogonal ----
    cfg,              \* the call's arguments (fixed during a run)
    pc,               \* position in optimize_orthogonal
    wfs,              \* wfs[i].parameters, the active wavefunction last
    coords,           \* the caller's ensemble (argument coords)
    allcoords,        \* one ensemble per reference (line 493)
    parameters,       \* the local serialized parameter vector
    step,             \* the outer loop variable
    acc_i,            \* index of the per-reference accumulation loop (line 529)
    total_derivative, \* the search direction after conditioning/projection/clipping
    line_weight,      \* line_data["weight"][reference][candidate], a fraction
    xfit,             \* test_tsteps[mask], the surviving candidate steps
    hdf,              \* the checkpoint sink (the HDF file)
    p_renorm,         \* history: parameters when the renormalization loop broke
    committed         \* history: the vectors installed at lines 620-621, in order

VARIABLES
    \* ---- one call of correlated_sample ----
    cs_pc,            \* position in correlated_sample
    cs_wfs,           \* the wavefunction objects: parameters and internals
    cs_configs,       \* the ensemble argument
    cs_parameters,    \* the list of candidate vectors
    cs_p,             \* the loop index p (from 1)
    cs_p0,            \* p0 of line 237
    cs_data,          \* data["weight"], one entry per candidate done
    cs_before         \* history: wfs and configs as they were at the call

VARIABLES
    \* ---- one call of a distributed wrapper ----
    d_fn,             \* the function submitted: the wrapper that is running
    d_sizes,          \* len(c.configs) for c in coord
    d_task,           \* state of each submitted task
    d_result,         \* what each finished task returned
    d_i,              \* the future being resolved (from 1)
    d_partial,        \* results resolved so far (final_coords / allresults)
    d_df,             \* the accumulator df
    d_pc,             \* position in the wrapper
    d_ret,            \* the mapping returned
    d_joined          \* configs.join(final_coords) was called

VARIABLES
    \* ---- one block of sample_overlap ----
    so_pc,            \* position in sample_overlap
    so_e,             \* electrons moved so far in the step
    so_log_values,    \* log-magnitude of every wavefunction at every walker
    so_ref,           \* ref of the last acceptance step
    so_exponent,      \* what the last acceptance step handed to exp
    so_block_ref      \* ref of the block statistics

VARIABLES
    \* ---- the search direction of one iteration (lines 566-589) ----
    g_pc,             \* position between line 566 and line 589
    g_condition,      \* the diagonal of condition, in tenths
    g_max_step,       \* max_step
    g_total,          \* total_derivative, up to the factor sqrt(g_factor2)
    g_factor2,        \* square of the factor the clipping of line 583 applied
    g_N,              \* N_derivative, in units of 1e-8
    g_unprojected,    \* history: total_derivative as line 570 left it
    g_steps           \* conditioner(total_derivative, condition, x) for every
                      \* test step x, up to the factor sqrt(g_factor2)

VARIABLES
    \* ---- the tasks of one distributed call, while they run ----
    t_fn,             \* the function the tasks run
    t_transport,      \* how the pool hands the arguments to a task
    t_parameters,     \* the candidate vectors, the same for every task
    t_heap,           \* the wavefunction objects: 0 is the driver's wfs[-1]
    t_wf,             \* the object each task's wfs[-1] refers to
    t_pc,             \* position of each task
    t_p,              \* loop index p of each task (from 1)
    t_p0,             \* p0 of each task
    t_seen            \* the internals the last wf.value() of each task read

drvVars == <<cfg, pc, wfs, coords, allcoords, parameters, step, acc_i,
             total_derivative, line_weight, xfit, hdf, p_renorm, committed>>

csVars == <<cs_pc, cs_wfs, cs_configs, cs_parameters, cs_p, cs_p0, cs_data,
            cs_before>>

distVars == <<d_fn, d_sizes, d_task, d_result, d_i, d_partial, d_df, d_pc,
              d_ret, d_joined>>

soVars == <<so_pc, so_e, so_log_values, so_ref, so_exponent, so_block_ref>>

gVars == <<g_pc, g_condition, g_max_step, g_total, g_factor2, g_N,
           g_unprojected, g_steps>>

tVars == <<t_fn, t_transport, t_parameters, t_heap, t_wf, t_pc, t_p, t_p0,
           t_seen>>

vars == <<drvVars, csVars, distVars, soVars, gVars, tVars>>

-----------------------------------------------------------------------------
(* Bounds of the exploration. *)

\* max_iterations takes the values 1 and MaxIter.
MaxIter == 2
\* test_tsteps has HalfSteps candidates on each side of 0 (np.linspace(-tstep,
\* tstep, 21) has 10); steps are counted in units of tstep / HalfSteps.
HalfSteps == 1
\* The sampled search direction has a component in 0..MaxDeriv (test_tsteps
\* is symmetric about 0, so the candidates of -d are those of d).
MaxDeriv == 1
\* Rows already in the sink when a run is a resumed one.
PriorRows == 1
\* Number of reference wavefunctions, len(wfs) - 1.
NRef == 2
\* Longest list of candidate vectors handed to correlated_sample.
MaxCand == 2
\* Largest npartitions of a distributed call.
MaxPart == 2
\* Largest number of walkers of the ensemble that is split.
MaxConf == 3
\* Walkers of the ensemble sample_overlap moves.
NWalkers == 2
\* Electrons of a configuration, nelec.
NElec == 2
\* Log-magnitudes take the values -MaxLog..MaxLog.
MaxLog == 1
\* Tasks of a distributed call that run at the same time.
NTasks == 2
\* Parameters of the active wavefunction in the search-direction model.
NParams == 2
\* Components of the sampled derivatives lie in -MaxGrad..MaxGrad.
MaxGrad == 2
\* Wavefunctions handed to the sampler by evaluate: a reference and the
\* active one.
SoNWf == 2

-----------------------------------------------------------------------------
(* Arithmetic helpers. *)

Abs(x) == IF x < 0 THEN -x ELSE x

Max(a, b) == IF a >= b THEN a ELSE b

\* The exact square root of a perfect square.
ISqrt(n) == CHOOSE r \in 0..n : r * r = n

Last(s) == s[Len(s)]

-----------------------------------------------------------------------------
(* The wavefunction list and the parameter transform. *)

NWf == NRef + 1

\* pgrad.transform.serialize_parameters: the optimized entries of the
\* parameter mapping as a flat vector.  wf1det_coeff is optimized,
\* wf1mo_coeff is not.
serialize_parameters(params) == <<params.wf1det_coeff>>

\* pgrad.transform.deserialize: a mapping holding the optimized keys only.
deserialize(vec) == [wf1det_coeff |-> vec[1]]

\* for k, it in mapping.items(): wf.parameters[k] = it
AssignItems(params, mapping) ==
    [k \in DOMAIN params |->
        IF k \in DOMAIN mapping THEN mapping[k] ELSE params[k]]

\* avg_data["overlap"].diagonal()[-1] of evaluate for the pair [ref, active]:
\* the active wavefunction's normalization, as the fraction <<num, den>>.
evaluate_N(ref, active) ==
    <<active.wf1det_coeff * active.wf1det_coeff,
      ref.wf1det_coeff * ref.wf1det_coeff
        + active.wf1det_coeff * active.wf1det_coeff>>

\* abs(N - Ntarget) < Ntol, with Ntarget and Ntol in hundredths.
WithinNtol(N, Ntarget, Ntol) ==
    Abs(100 * N[1] - Ntarget * N[2]) < Ntol * N[2]

\* renormalize: wf1det_coeff *= sqrt((1 - N) / N).  The factor depends on N
\* alone; Ntarget is not an argument.
renormalize(params, N) ==
    [params EXCEPT !.wf1det_coeff =
        (@ * ISqrt(N[2] - N[1])) \div ISqrt(N[1])]

-----------------------------------------------------------------------------
(* The line search (lines 585-621). *)

\* test_tsteps = np.linspace(-tstep, tstep, 2 * HalfSteps + 1)
test_tsteps == (-HalfSteps)..HalfSteps

\* conditioner = pyqmc.linemin.sd_update: the parameter delta of a step x
\* along the direction d, a steepest-descent move against the derivative.
conditioner(d, x) == <<-(d[1] * x)>>

VecAdd(u, v) == [k \in DOMAIN u |-> u[k] + v[k]]

\* test_parameters (lines 586-589), indexed by the step.
test_parameters(p, d) == [x \in test_tsteps |-> VecAdd(p, conditioner(d, x))]

\* data["weight"][p] = mean(wt) / mean(rhoprime) of correlated_sample (lines
\* 269-283) for the pair [ref, active] with the candidate vector installed:
\* wt = |Psi'|^2 / rho and rhoprime = (rho - |Psi_f|^2 + |Psi'|^2) / rho, so
\* the quotient is |Psi'|^2 / (|Psi_ref|^2 + |Psi'|^2).
correlated_weight(ref, cand) ==
    <<cand[1] * cand[1], ref.wf1det_coeff * ref.wf1det_coeff + cand[1] * cand[1]>>

\* A filter that keeps the weights within weight_boundaries of 1.
mask_entry_near_one(w, wb) ==
    /\ 100 * Abs(w[1] - w[2]) < wb * w[2]
    /\ 100 * Abs(w[1]) > wb * w[2]

\* One entry of the mask of lines 608-610 for a weight w = <<num, den>>:
\* (abs(w - 1.0) > weight_boundaries) & (abs(w) > weight_boundaries).
mask_entry(w, wb) ==
    /\ 100 * Abs(w[1] - w[2]) > wb * w[2]
    /\ 100 * Abs(w[1]) > wb * w[2]

\* mask = np.all(mask, axis=0); xfit = test_tsteps[mask]  (lines 611-612)
masked_tsteps(lw, wb) ==
    {x \in test_tsteps : \A i \in 1..NRef : mask_entry(lw[i][x], wb)}

\* What a call of correlated_sample leaves in the active wavefunction's
\* parameter mapping: every candidate installed in turn (lines 263-264), then
\* the entry value p0 put back (lines 237, 288-289).
RECURSIVE install_all(_, _)
install_all(params, cands) ==
    IF cands = <<>> THEN params
    ELSE install_all(AssignItems(params, deserialize(Head(cands))), Tail(cands))

correlated_sample_parameters(params, cands) ==
    LET p0 == serialize_parameters(params)
    IN  AssignItems(install_all(params, cands), deserialize(p0))

\* renormalize with the first wavefunction of the list as the one rescaled.
renormalize_first(ws, N) == [ws EXCEPT ![1] = renormalize(@, N)]

\* renormalize(wfs, N), lines 322-336, on the list it is handed: the entry
\* of wfs[-1].parameters is rescaled in place, the others are not touched.
renormalize_wfs(ws, N) == [ws EXCEPT ![Len(ws)] = renormalize(@, N)]

\* correlated_sample, lines 261-289, on the list it is handed, as far as the
\* parameters go: the candidates are installed in wfs[-1] and p0 put back.
correlated_sample_wfs(ws, cands) ==
    [ws EXCEPT ![Len(ws)] = correlated_sample_parameters(@, cands)]

\* The candidates in the order of test_tsteps.
CandidateList(p, d) ==
    [k \in 1..(2 * HalfSteps + 1) |-> test_parameters(p, d)[k - HalfSteps - 1]]

-----------------------------------------------------------------------------
(* Shapes of Starget and forcing.  A length of 0 stands for a 0-d array, *)
(* what np.asarray makes of a scalar such as the defaults 0.0 and 10.0.  *)

\* numpy broadcasting of two arrays of at most one dimension.
Broadcastable(a, b) == a = 0 \/ b = 0 \/ a = b \/ a = 1 \/ b = 1

\* forcing * (overlaps - Starget) and its product with overlap_derivatives
\* (lines 542-545) evaluate without a ValueError.
GradientShapesOk(lenF, lenS) ==
    /\ Broadcastable(NRef, lenS)
    /\ Broadcastable(lenF, Max(NRef, lenS))
    /\ Broadcastable(Max(lenF, Max(NRef, lenS)), NRef)

\* forcing[:, np.newaxis] and Starget[:, np.newaxis] (lines 603-606) need an
\* array of one dimension; a 0-d array raises IndexError.
CostShapesOk(lenF, lenS) == lenF # 0 /\ lenS # 0

-----------------------------------------------------------------------------
(* The checkpoint sink (ortho_hdf, lines 7-20). *)

\* The file before anything was written to it.
EmptyFile ==
    [has_configs |-> FALSE, attr |-> <<>>, rows |-> <<>>,
     configs |-> -1, wf |-> <<>>]

\* A writer that opens the file with mode "w": every write starts it anew.
ortho_hdf_truncating(file, hdf_file, data, attr, configs, params) ==
    IF ~hdf_file THEN file
    ELSE [has_configs |-> TRUE, attr |-> attr, rows |-> <<data>>,
          configs |-> configs, wf |-> serialize_parameters(params)]

\* hdf_file is None: hdf_file = FALSE in cfg, and the sink is never touched.
ortho_hdf(file, hdf_file, data, attr, configs, params) ==
    IF ~hdf_file THEN file
    ELSE LET opened ==
                 IF ~file.has_configs
                 THEN [file EXCEPT !.has_configs = TRUE, !.attr = attr,
                                   !.configs = configs,
                                   !.wf = serialize_parameters(params)]
                 ELSE file
         IN  [opened EXCEPT !.rows = Append(@, data),
                            !.configs = configs,
                            !.wf = serialize_parameters(params)]

\* attr of lines 465-473 (the entries the model distinguishes).
attr_of(c) == [max_iterations |-> c.max_iterations, Ntarget |-> c.Ntarget]

\* save_data of lines 623-636 (the entries the model distinguishes).
save_data(p, s, c) == [iteration |-> s + c.step_offset, parameters |-> p]

-----------------------------------------------------------------------------
(* The parts of the state a specification does not use. *)

CsIdle ==
    /\ cs_pc = "idle"
    /\ cs_wfs = <<>>
    /\ cs_configs = 0
    /\ cs_parameters = <<>>
    /\ cs_p = 0
    /\ cs_p0 = <<>>
    /\ cs_data = <<>>
    /\ cs_before = <<>>

DistIdle ==
    /\ d_fn = "none"
    /\ d_sizes = <<>>
    /\ d_task = <<>>
    /\ d_result = <<>>
    /\ d_i = 0
    /\ d_partial = <<>>
    /\ d_df = <<>>
    /\ d_pc = "idle"
    /\ d_ret = <<>>
    /\ d_joined = FALSE

TIdle ==
    /\ t_fn = "none"
    /\ t_transport = "none"
    /\ t_parameters = <<>>
    /\ t_heap = <<>>
    /\ t_wf = <<>>
    /\ t_pc = <<>>
    /\ t_p = <<>>
    /\ t_p0 = <<>>
    /\ t_seen = <<>>

GIdle ==
    /\ g_pc = "idle"
    /\ g_condition = <<>>
    /\ g_max_step = 0
    /\ g_total = <<>>
    /\ g_factor2 = <<>>
    /\ g_N = <<>>
    /\ g_unprojected = <<>>
    /\ g_steps = <<>>

SoIdle ==
    /\ so_pc = "idle"
    /\ so_e = 0
    /\ so_log_values = <<>>
    /\ so_ref = <<>>
    /\ so_exponent = <<>>
    /\ so_block_ref = <<>>

DrvIdle ==
    /\ cfg = <<>>
    /\ pc = "idle"
    /\ wfs = <<>>
    /\ coords = 0
    /\ allcoords = <<>>
    /\ parameters = <<>>
    /\ step = 0
    /\ acc_i = 0
    /\ total_derivative = <<>>
    /\ line_weight = <<>>
    /\ xfit = {}
    /\ hdf = <<>>
    /\ p_renorm = <<>>
    /\ committed = <<>>

-----------------------------------------------------------------------------
(* optimize_orthogonal (lines 373-642), single-process mode. *)

\* A sink left by an earlier run of PriorRows iterations.
PriorFile ==
    [has_configs |-> TRUE,
     attr |-> [max_iterations |-> PriorRows, Ntarget |-> 50],
     rows |-> [k \in 1..PriorRows |-> [iteration |-> k - 1, parameters |-> <<3>>]],
     configs |-> 0,
     wf |-> <<3>>]

\* Shapes of Starget and forcing explored: 0-d, and the lengths 1, NRef and
\* NRef + 1.
ArgShapes == {0, 1, NRef, NRef + 1}

\* The arguments explored: Ntarget, Ntol as 0.5 +- 0.05, 0.5 +- 0.2 and
\* 0.8 +- 0.05; max_iterations as 1 and MaxIter.  sink tells what hdf_file names: nothing (None), a
\* new file, or the file of an earlier run that this run resumes with
\* step_offset set to the number of rows it holds.
Configs ==
    {c \in [lenStarget : ArgShapes, lenForcing : ArgShapes,
             Ntarget : {50, 80}, Ntol : {5, 20}, weight_boundaries : {30},
             max_iterations : {1, MaxIter}, sink : {"none", "new", "resumed"}] :
        c.Ntarget = 80 => c.Ntol = 5}

hdf_file(c) == c.sink # "none"

\* The wavefunction list: the first reference has amplitude 3, the others 2
\* or 3, the active wavefunction starts at 1 or 6.
WfLists ==
    {[i \in 1..NWf |->
         [wf1det_coeff |-> IF i = 1 THEN 3 ELSE IF i = NWf THEN c0 ELSE amp[i],
          wf1mo_coeff |-> 7]] :
       c0 \in {1, 6}, amp \in [2..NRef -> {2, 3}]}

\* The arguments of one call: c with the step_offset of the sink it names.
Call(c) ==
    [lenStarget |-> c.lenStarget, lenForcing |-> c.lenForcing,
     Ntarget |-> c.Ntarget, Ntol |-> c.Ntol,
     weight_boundaries |-> c.weight_boundaries,
     max_iterations |-> c.max_iterations, sink |-> c.sink,
     step_offset |-> IF c.sink = "resumed" THEN PriorRows ELSE 0]

InitialFile(c) == IF c.sink = "resumed" THEN PriorFile ELSE EmptyFile

DrvInit ==
    /\ cfg \in {Call(c) : c \in Configs}
    /\ pc = "start"
    /\ wfs \in WfLists
    /\ coords = 0
    /\ allcoords = <<>>
    /\ parameters = <<>>
    /\ step = 0
    /\ acc_i = 0
    /\ total_derivative = <<0>>
    /\ line_weight = <<>>
    /\ xfit = {}
    /\ hdf = InitialFile(cfg)
    /\ p_renorm = <<>>
    /\ committed = <<>>

\* Lines 462-493: serialize the active parameters, copy the ensemble once per
\* reference.  range(max_iterations) is not empty: max_iterations >= 1.
Start ==
    /\ pc = "start"
    /\ parameters' = serialize_parameters(wfs[NWf])
    /\ allcoords' = [i \in 1..NRef |-> coords]
    /\ pc' = "renorm"
    /\ UNCHANGED <<cfg, wfs, coords, step, acc_i, total_derivative, line_weight,
                   xfit, hdf, p_renorm, committed>>
    /\ UNCHANGED <<csVars, distVars, soVars, gVars, tVars>>

\* The ensemble a call of sample_overlap leaves: configs.move (line 91) moves
\* the accepted walkers in place.  Coordinates are abstracted to two values:
\* 0, the coordinates the caller passed in, and 1, coordinates after a move.
SampledCoords == {0, 1}

\* Lines 510-524: sample against the first reference; N is within Ntol of
\* Ntarget and the loop breaks.
RenormAccept ==
    /\ pc = "renorm"
    /\ \E x \in SampledCoords : allcoords' = [allcoords EXCEPT ![1] = x]
    /\ WithinNtol(evaluate_N(wfs[1], wfs[NWf]), cfg.Ntarget, cfg.Ntol)
    /\ p_renorm' = parameters
    /\ acc_i' = 2
    /\ pc' = IF NRef >= 2 THEN "accum" ELSE "grad"
    /\ UNCHANGED <<cfg, wfs, coords, parameters, step, total_derivative,
                   line_weight, xfit, hdf, committed>>
    /\ UNCHANGED <<csVars, distVars, soVars, gVars, tVars>>

\* Lines 510-516, 525-527: sample against the first reference; N is not within
\* Ntol of Ntarget: renormalize, serialize again, and go round the loop.
RenormRescale ==
    /\ pc = "renorm"
    /\ \E x \in SampledCoords : allcoords' = [allcoords EXCEPT ![1] = x]
    /\ ~WithinNtol(evaluate_N(wfs[1], wfs[NWf]), cfg.Ntarget, cfg.Ntol)
    /\ LET pair == renormalize_wfs(<<wfs[1], wfs[NWf]>>,
                                   evaluate_N(wfs[1], wfs[NWf]))
       IN  wfs' = [wfs EXCEPT ![1] = pair[1], ![NWf] = pair[2]]
    /\ parameters' = serialize_parameters(wfs'[NWf])
    /\ UNCHANGED <<cfg, pc, coords, step, acc_i, total_derivative, line_weight,
                   xfit, hdf, p_renorm, committed>>
    /\ UNCHANGED <<csVars, distVars, soVars, gVars, tVars>>

\* Lines 529-539: one pass of the loop over the remaining references.
Accumulate ==
    /\ pc = "accum"
    /\ \E x \in SampledCoords : allcoords' = [allcoords EXCEPT ![acc_i] = x]
    /\ acc_i' = acc_i + 1
    /\ pc' = IF acc_i = NRef THEN "grad" ELSE "accum"
    /\ UNCHANGED <<cfg, wfs, coords, parameters, step, total_derivative,
                   line_weight, xfit, hdf, p_renorm, committed>>
    /\ UNCHANGED <<csVars, distVars, soVars, gVars, tVars>>

\* Lines 542-545 with shapes numpy cannot broadcast: ValueError.
GradientError ==
    /\ pc = "grad"
    /\ ~GradientShapesOk(cfg.lenForcing, cfg.lenStarget)
    /\ pc' = "error"
    /\ UNCHANGED <<cfg, wfs, coords, allcoords, parameters, step, acc_i,
                   total_derivative, line_weight, xfit, hdf, p_renorm, committed>>
    /\ UNCHANGED <<csVars, distVars, soVars, gVars, tVars>>

\* Lines 542-583: the search direction, from the sampled derivatives.
GradientAssembly ==
    /\ pc = "grad"
    /\ GradientShapesOk(cfg.lenForcing, cfg.lenStarget)
    /\ \E d \in 0..MaxDeriv : total_derivative' = <<d>>
    /\ pc' = "linesearch"
    /\ UNCHANGED <<cfg, wfs, coords, allcoords, parameters, step, acc_i,
                   line_weight, xfit, hdf, p_renorm, committed>>
    /\ UNCHANGED <<csVars, distVars, soVars, gVars, tVars>>

\* Lines 585-599: correlated_sample for every reference on the candidates.
LineSearchSample ==
    /\ pc = "linesearch"
    /\ line_weight' =
         [i \in 1..NRef |->
            [x \in test_tsteps |->
               correlated_weight(wfs[i],
                                 test_parameters(parameters, total_derivative)[x])]]
    /\ wfs' = [i \in 1..NWf |->
                 LET cands == CandidateList(parameters, total_derivative)
                 IN  IF i = NWf
                     THEN correlated_sample_wfs(<<wfs[NRef], wfs[NWf]>>, cands)[2]
                     ELSE correlated_sample_wfs(<<wfs[i], wfs[NWf]>>, cands)[1]]
    /\ pc' = "fit"
    /\ UNCHANGED <<cfg, coords, allcoords, parameters, step, acc_i,
                   total_derivative, xfit, hdf, p_renorm, committed>>
    /\ UNCHANGED <<csVars, distVars, soVars, gVars, tVars>>

\* Lines 603-606 with a 0-d forcing or Starget: IndexError.
LineSearchError ==
    /\ pc = "fit"
    /\ ~CostShapesOk(cfg.lenForcing, cfg.lenStarget)
    /\ pc' = "error"
    /\ UNCHANGED <<cfg, wfs, coords, allcoords, parameters, step, acc_i,
                   total_derivative, line_weight, xfit, hdf, p_renorm, committed>>
    /\ UNCHANGED <<csVars, distVars, soVars, gVars, tVars>>

\* A commit that moves by the largest test step when no candidate is left.
committed_parameters_always(p, d, fit, min_tstep) ==
    VecAdd(p, conditioner(d, IF fit # {} THEN min_tstep ELSE HalfSteps))

\* The vector of lines 615-618 after the filter left the steps fit: with none
\* left it is the vector as it was, otherwise stable_fit2 picks a step.
committed_parameters(p, d, fit, min_tstep) ==
    IF fit # {} THEN VecAdd(p, conditioner(d, min_tstep)) ELSE p

\* Lines 603-621: filter the candidates, move if any is left, and install
\* the vector in the active wavefunction.
LineSearchCommit ==
    /\ pc = "fit"
    /\ CostShapesOk(cfg.lenForcing, cfg.lenStarget)
    /\ xfit' = masked_tsteps(line_weight, cfg.weight_boundaries)
    /\ \E min_tstep \in (IF xfit' = {} THEN {0} ELSE xfit') :
          parameters' =
             committed_parameters(parameters, total_derivative, xfit', min_tstep)
    /\ wfs' = [wfs EXCEPT ![NWf] = AssignItems(@, deserialize(parameters'))]
    /\ committed' = Append(committed, parameters')
    /\ pc' = "checkpoint"
    /\ UNCHANGED <<cfg, coords, allcoords, step, acc_i, total_derivative,
                   line_weight, hdf, p_renorm>>
    /\ UNCHANGED <<csVars, distVars, soVars, gVars, tVars>>

\* Lines 623-640 and the loop header of line 494.
Checkpoint ==
    /\ pc = "checkpoint"
    /\ hdf' = ortho_hdf(hdf, hdf_file(cfg), save_data(parameters, step, cfg),
                        attr_of(cfg), coords, deserialize(parameters))
    /\ step' = step + 1
    /\ pc' = IF step + 1 = cfg.max_iterations THEN "done" ELSE "renorm"
    /\ UNCHANGED <<cfg, wfs, coords, allcoords, parameters, acc_i,
                   total_derivative, line_weight, xfit, p_renorm, committed>>
    /\ UNCHANGED <<csVars, distVars, soVars, gVars, tVars>>

DrvNext ==
    \/ Start
    \/ RenormAccept
    \/ RenormRescale
    \/ Accumulate
    \/ GradientError
    \/ GradientAssembly
    \/ LineSearchSample
    \/ LineSearchError
    \/ LineSearchCommit
    \/ Checkpoint

\* optimize_orthogonal on its own: no separate call of correlated_sample or
\* of a distributed wrapper is in progress.
Init == DrvInit /\ CsIdle /\ DistIdle /\ SoIdle /\ GIdle /\ TIdle

Next == DrvNext

Spec == Init /\ [][Next]_vars

\* The driver is one thread of control: it takes its next step whenever it
\* has one.
FairSpec == Spec /\ WF_vars(Next)

-----------------------------------------------------------------------------
(* Claims about optimize_orthogonal. *)

\* Steps whose weight is within weight_boundaries of 1 for every reference.
NearOneForAll(lw, wb) ==
    {x \in test_tsteps :
        \A i \in 1..NRef : 100 * Abs(lw[i][x][1] - lw[i][x][2]) <= wb * lw[i][x][2]}

\* C2 as stated: in the line search, a candidate whose weight deviates from
\* 1 by more than weight_boundaries for some reference is discarded, and only
\* candidates within weight_boundaries of 1 for every reference reach the fit.
C2_OnlyNearOnePassed ==
    pc = "checkpoint" => xfit = NearOneForAll(line_weight, cfg.weight_boundaries)

\* C2 amended: a candidate reaches the fit exactly when, for every reference,
\* its weight deviates from 1 by more than weight_boundaries and also exceeds
\* weight_boundaries in magnitude; it is discarded as soon as, for some
\* reference, the weight is within weight_boundaries of 1 or of 0.
C2_FarFromOneAndZeroPassed ==
    pc = "checkpoint" =>
        \A x \in test_tsteps :
            x \in xfit <=>
                \A i \in 1..NRef :
                    LET num == line_weight[i][x][1]
                        den == line_weight[i][x][2]
                    IN  /\ 100 * Abs(num - den) > cfg.weight_boundaries * den
                        /\ 100 * Abs(num) > cfg.weight_boundaries * den

\* C2 witness: a line search in which some candidates were discarded and
\* some were passed to the fit, a discarded one being near 1.
C2_Witness ==
    /\ pc = "checkpoint"
    /\ xfit # {}
    /\ xfit # test_tsteps
    /\ NearOneForAll(line_weight, cfg.weight_boundaries) # {}

\* C3 as stated: the renormalization loop terminates for any Ntarget and
\* Ntol: whenever the driver is in the renormalization phase it eventually
\* leaves it.
C3_RenormalizationTerminates == (pc = "renorm") ~> (pc # "renorm")

Mismatched(c) == c.lenStarget # NRef \/ c.lenForcing # NRef

\* C6 as stated: with Starget or forcing of a length other than the number
\* of references the call fails at once: it is at its start or has failed,
\* and nothing was sampled, renormalized or changed.
C6_MismatchFailsAtOnce ==
    Mismatched(cfg) =>
        /\ pc \in {"start", "renorm", "error"}
        /\ pc = "renorm" => allcoords = [i \in 1..NRef |-> coords]
        /\ pc = "error" => allcoords = <<>>
        /\ committed = <<>>
        /\ step = 0

\* C7 as stated: once the run has written its last checkpoint, the ensemble
\* coordinates in the sink are the latest coordinates of the driver's walker
\* ensembles and the stored parameters are the committed ones.
C7_SinkHoldsLatestEnsemble ==
    (pc = "done" /\ hdf_file(cfg)) =>
        /\ hdf.configs \in {allcoords[i] : i \in 1..NRef}
        /\ hdf.wf = Last(committed)

\* State part of C8: never more than max_iterations iterations and exactly
\* that many at the end; without a sink nothing is written; with one, the
\* rows of an earlier run stay in front, its header stays, and this run's
\* k-th row holds iteration step_offset + k - 1 and the k-th committed vector.
C8_Rows ==
    /\ step <= cfg.max_iterations
    /\ pc = "done" => step = cfg.max_iterations
    /\ ~hdf_file(cfg) => hdf = EmptyFile
    /\ hdf_file(cfg) =>
         LET prior == InitialFile(cfg).rows
         IN  /\ Len(hdf.rows) = Len(prior) + step
             /\ \A k \in 1..Len(prior) : hdf.rows[k] = prior[k]
             /\ \A k \in 1..step :
                   hdf.rows[Len(prior) + k] =
                      [iteration |-> cfg.step_offset + k - 1,
                       parameters |-> committed[k]]
    /\ cfg.sink = "resumed" => hdf.attr = PriorFile.attr

C9_NoSurvivorNoUpdate ==
    /\ (pc = "checkpoint" /\ xfit = {}) =>
          /\ parameters = p_renorm
          /\ serialize_parameters(wfs[NWf]) = p_renorm
          /\ Last(committed) = p_renorm
    /\ (pc \in {"renorm", "done"} /\ step > 0 /\ xfit = {} /\ hdf_file(cfg)) =>
          Last(hdf.rows) =
             [iteration |-> cfg.step_offset + step - 1, parameters |-> p_renorm]

\* C9 witness: a recorded iteration with a search direction that is not zero
\* and no surviving candidate.
C9_Witness ==
    /\ pc = "done"
    /\ xfit = {}
    /\ hdf_file(cfg)
    /\ total_derivative # <<0>>

-----------------------------------------------------------------------------
(* Exact rationals <<numerator, denominator>> in lowest terms, and arrays *)
(* [shape, data] with the data in row-major order, for the statistics    *)
(* the distributed wrappers combine.                                     *)

RECURSIVE GCD(_, _)
GCD(a, b) == IF b = 0 THEN a ELSE GCD(b, a % b)

Q(n, d) ==
    LET g == GCD(Abs(n), d)
    IN  IF n = 0 THEN <<0, 1>> ELSE <<n \div g, d \div g>>

QAdd(a, b) ==
    LET l == (a[2] * b[2]) \div GCD(a[2], b[2])
    IN  Q(a[1] * (l \div a[2]) + b[1] * (l \div b[2]), l)

QMul(a, b) == Q(a[1] * b[1], a[2] * b[2])

\* a / b for b > 0
QDiv(a, b) == Q(a[1] * b[2], a[2] * b[1])

RECURSIVE QSum(_, _)
\* f[1] + ... + f[n]
QSum(f, n) == IF n = 0 THEN <<0, 1>> ELSE QAdd(QSum(f, n - 1), f[n])

RECURSIVE SumSeq(_)
SumSeq(sq) == IF sq = <<>> THEN 0 ELSE Head(sq) + SumSeq(Tail(sq))

Array(shape, data) == [shape |-> shape, data |-> data]

\* np.zeros(a.shape)
Zeros(a) == Array(a.shape, [k \in DOMAIN a.data |-> <<0, 1>>])

\* a * q, q a scalar
ArrScale(a, q) == Array(a.shape, [k \in DOMAIN a.data |-> QMul(a.data[k], q)])

\* a + b and a * b, equal shapes
ArrAdd(a, b) == Array(a.shape, [k \in DOMAIN a.data |-> QAdd(a.data[k], b.data[k])])

ArrMul(a, b) == Array(a.shape, [k \in DOMAIN a.data |-> QMul(a.data[k], b.data[k])])

\* The leading index (from 1) of entry k of a.
Lead(a, k) == ((k - 1) \div (Len(a.data) \div a.shape[1])) + 1

\* weight[:, -1]: the last column of a two-dimensional array.
LastColumn(a) == [b \in 1..a.shape[1] |-> a.data[b * a.shape[2]]]

\* a * col[:, np.newaxis, ...]: col is broadcast along the leading axis.
TimesLeading(a, col) ==
    Array(a.shape, [k \in DOMAIN a.data |-> QMul(a.data[k], col[Lead(a, k)])])

\* a / (n * col[:, np.newaxis, ...])
OverLeading(a, col, n) ==
    Array(a.shape,
          [k \in DOMAIN a.data |-> QDiv(a.data[k], QMul(Q(n, 1), col[Lead(a, k)]))])

\* np.array([x_1, ..., x_n]) of n arrays of one shape
Stack(arrs) ==
    LET m == Len(arrs[1].data)
    IN  Array(<<Len(arrs)>> \o arrs[1].shape,
              [k \in 1..(Len(arrs) * m) |->
                  arrs[((k - 1) \div m) + 1].data[((k - 1) % m) + 1]])

\* np.average(a, weights=w, axis=0), w of the shape of a
AverageAxis0(a, w) ==
    LET n == a.shape[1]
        m == Len(a.data) \div n
    IN  Array(Tail(a.shape),
              [e \in 1..m |->
                  QDiv(QSum([i \in 1..n |-> QMul(a.data[(i - 1) * m + e],
                                                 w.data[(i - 1) * m + e])], n),
                       QSum([i \in 1..n |-> w.data[(i - 1) * m + e]], n))])

\* np.mean(a, axis=0)
MeanAxis0(a) ==
    LET n == a.shape[1]
        m == Len(a.data) \div n
    IN  Array(Tail(a.shape),
              [e \in 1..m |->
                  QDiv(QSum([i \in 1..n |-> a.data[(i - 1) * m + e]], n), Q(n, 1))])

\* One-dimensional weights along axis 0, spread to the shape of a.
AlongAxis0(col, a) == Array(a.shape, [k \in DOMAIN a.data |-> col[Lead(a, k)]])

-----------------------------------------------------------------------------
(* correlated_sample (lines 208-290), one call with wfs = [reference,    *)
(* active].  A wavefunction object is its parameter mapping and its      *)
(* internals, the state its last recompute left: the ensemble it was     *)
(* computed on and the parameters it was computed with.                  *)

\* wf.recompute(configs)
recompute(wf, configs) ==
    [wf EXCEPT !.internals = [configs |-> configs, parameters |-> wf.parameters]]

\* Lines 263-264: the candidate's entries are stored in wf.parameters.
install(wf, vec) ==
    [wf EXCEPT !.parameters = AssignItems(@, deserialize(vec))]

\* Lines 288-289: the entries of p0 are stored in wfs[-1].parameters.
restore(wf, p0) ==
    [wf EXCEPT !.parameters = AssignItems(@, deserialize(p0))]

\* Candidate vectors explored.
CandidateVectors == {<<2>>, <<3>>, <<4>>}

CandidateLists ==
    UNION {[1..n -> CandidateVectors] : n \in 0..MaxCand}

\* The wavefunction objects at the call: a reference of amplitude 3, an
\* active wavefunction of amplitude 2 or 3, each with internals left by a
\* recompute with its present parameters on some ensemble.
CsWavefunctions ==
    {<<recompute([parameters |-> [wf1det_coeff |-> 3, wf1mo_coeff |-> 7],
                  internals |-> <<>>], e1),
       recompute([parameters |-> [wf1det_coeff |-> c, wf1mo_coeff |-> 7],
                  internals |-> <<>>], e2)>> :
        c \in {2, 3}, e1 \in SampledCoords, e2 \in SampledCoords}

CsInit ==
    /\ cs_pc = "entry"
    /\ cs_wfs \in CsWavefunctions
    /\ cs_configs \in SampledCoords
    /\ cs_parameters \in CandidateLists
    /\ cs_p = 0
    /\ cs_p0 = <<>>
    /\ cs_data = <<>>
    /\ cs_before = [wfs |-> cs_wfs, configs |-> cs_configs]

\* Lines 237-260: p0, the recompute of every wavefunction, the baseline.
CsEntry ==
    /\ cs_pc = "entry"
    /\ cs_p0' = serialize_parameters(cs_wfs[2].parameters)
    /\ cs_wfs' = [i \in 1..2 |-> recompute(cs_wfs[i], cs_configs)]
    /\ cs_p' = 1
    /\ cs_pc' = "loop"
    /\ UNCHANGED <<cs_configs, cs_parameters, cs_data, cs_before>>
    /\ UNCHANGED <<drvVars, distVars, soVars, gVars, tVars>>

\* Lines 261-284: one candidate is installed, recomputed and evaluated.
CsCandidate ==
    /\ cs_pc = "loop"
    /\ cs_p <= Len(cs_parameters)
    /\ cs_wfs' = [cs_wfs EXCEPT
                    ![2] = recompute(install(@, cs_parameters[cs_p]), cs_configs)]
    /\ cs_data' = Append(cs_data,
                         correlated_weight(cs_wfs[1].parameters, cs_parameters[cs_p]))
    /\ cs_p' = cs_p + 1
    /\ UNCHANGED <<cs_pc, cs_configs, cs_parameters, cs_p0, cs_before>>
    /\ UNCHANGED <<drvVars, distVars, soVars, gVars, tVars>>

\* Lines 263-267 raising: wf.recompute, wf.value or pgrad.enacc fails after
\* the candidate was installed, and the error leaves correlated_sample.
CsCandidateRaises ==
    /\ cs_pc = "loop"
    /\ cs_p <= Len(cs_parameters)
    /\ cs_wfs' = [cs_wfs EXCEPT ![2] = install(@, cs_parameters[cs_p])]
    /\ cs_pc' = "raised"
    /\ UNCHANGED <<cs_configs, cs_parameters, cs_p, cs_p0, cs_data, cs_before>>
    /\ UNCHANGED <<drvVars, distVars, soVars, gVars, tVars>>

\* Lines 288-290: p0 is put back and data returned.
CsReturn ==
    /\ cs_pc = "loop"
    /\ cs_p > Len(cs_parameters)
    /\ cs_wfs' = [cs_wfs EXCEPT ![2] = restore(@, cs_p0)]
    /\ cs_pc' = "returned"
    /\ UNCHANGED <<cs_configs, cs_parameters, cs_p, cs_p0, cs_data, cs_before>>
    /\ UNCHANGED <<drvVars, distVars, soVars, gVars, tVars>>

CsNext ==
    \/ CsEntry
    \/ CsCandidate
    \/ CsCandidateRaises
    \/ CsReturn

InitCs == CsInit /\ DrvIdle /\ DistIdle /\ SoIdle /\ GIdle /\ TIdle

NextCs == CsNext

SpecCs == InitCs /\ [][NextCs]_vars

\* C1 as stated: when correlated_sample returns, the active wavefunction's
\* parameters, the ensemble and every wavefunction's state, the state left
\* by its last recompute included, are what they were before the call.
C1_ReadOnlyProbe ==
    cs_pc = "returned" =>
        /\ cs_wfs[2].parameters = cs_before.wfs[2].parameters
        /\ cs_configs = cs_before.configs
        /\ cs_wfs = cs_before.wfs

-----------------------------------------------------------------------------
(* dist_sample_overlap (lines 151-205) and dist_correlated_sample (lines  *)
(* 293-319): one call.  The tasks were submitted, one per sub-ensemble;   *)
(* they finish in any order, each returning a result or raising, while   *)
(* the wrapper resolves the futures in submission order.                 *)

\* configs.split(npartitions): the sizes of the sub-ensembles.
split(nconf, npartitions) ==
    [i \in 1..npartitions |->
        (nconf \div npartitions) + (IF i <= nconf % npartitions THEN 1 ELSE 0)]

\* Lines 163-164 and 309-310: confweight.
confweight(sizes) ==
    [i \in DOMAIN sizes |-> Q(sizes[i] * Len(sizes), SumSeq(sizes))]

\* What sample_overlap returns for one block, two wavefunctions and one
\* parameter: a is the weight of the active wavefunction, x the value of
\* the averaged quantities.
sample_overlap_result(a, x) ==
    [overlap          |-> Array(<<1, 2, 2>>, <<Q(1, 1), Q(1, 2), Q(1, 2), Q(1, 1)>>),
     overlap_gradient |-> Array(<<1, 2, 1>>, <<Q(1, 3), Q(1, 5)>>),
     total            |-> Array(<<1>>, <<x>>),
     dppsi            |-> Array(<<1, 1>>, <<QMul(x, Q(1, 2))>>),
     dpidpj           |-> Array(<<1, 1, 1>>, <<QMul(x, x)>>),
     weight           |-> Array(<<1, 2>>, <<QAdd(Q(1, 1), QMul(Q(-1, 1), a)), a>>)]

\* What correlated_sample returns for one candidate and two wavefunctions.
correlated_sample_result(a, x) ==
    [total       |-> Array(<<1>>, <<x>>),
     weight      |-> Array(<<1>>, <<a>>),
     overlap     |-> Array(<<1, 2>>, <<Q(1, 2), Q(1, 1)>>),
     rhoprime    |-> Array(<<1>>, <<QAdd(Q(1, 2), a)>>),
     base_weight |-> Array(<<2>>, <<Q(1, 2), Q(1, 2)>>)]

WorkerWeights == {Q(1, 2), Q(1, 4)}

WorkerValues == {Q(1, 1), Q(2, 1)}

WorkerResults(fn) ==
    IF fn = "sample_overlap"
    THEN {sample_overlap_result(a, x) : a \in WorkerWeights, x \in WorkerValues}
    ELSE {correlated_sample_result(a, x) : a \in WorkerWeights, x \in WorkerValues}

\* r.result() that hands back an empty result for a failed task instead of
\* raising.
RaisesNever(t) == FALSE

\* r.result() raises what the task raised.
Raises(t) == t = "failed"

WeightKeys == {"weight", "overlap", "overlap_gradient"}

\* Line 171: result[0]["weight"] *= confweight[i]
rescale_weight(result, c) ==
    [k \in DOMAIN result |->
        IF k = "weight" THEN ArrScale(result[k], c) ELSE result[k]]

\* Lines 174-192: one resolved result, its weight already rescaled, is added
\* to df.  The quantities the tasks return have one to three dimensions, so
\* lines 187-190 are not reached.
fold(df, result, c, nruns) ==
    [k \in DOMAIN df \cup DOMAIN result |->
        IF k \notin DOMAIN result THEN df[k]
        ELSE LET acc == IF k \in DOMAIN df THEN df[k] ELSE Zeros(result[k])
             IN  IF k \notin WeightKeys
                 THEN ArrAdd(acc, TimesLeading(result[k], LastColumn(result.weight)))
                 ELSE ArrAdd(acc, ArrScale(result[k], QDiv(c, Q(nruns, 1))))]

\* Lines 194-201
normalise(df, nruns) ==
    [k \in DOMAIN df |->
        IF k \notin WeightKeys
        THEN OverLeading(df[k], LastColumn(df.weight), nruns)
        ELSE df[k]]

\* Lines 306-308: every key stacked over the partitions.
stack_results(allresults) ==
    [k \in DOMAIN allresults[1] |->
        Stack([i \in DOMAIN allresults |-> allresults[i][k]])]

\* Lines 309-318
combine(df, cw) ==
    LET rhowt == TimesLeading(df.rhoprime, cw)
        wt == ArrMul(df.weight, rhowt)
    IN  [k \in DOMAIN df |->
            CASE k = "total" -> AverageAxis0(df.total, wt)
              [] k = "overlap" -> AverageAxis0(df.overlap, AlongAxis0(cw, df.overlap))
              [] k = "weight" -> AverageAxis0(df.weight, rhowt)
              [] k = "rhoprime" -> MeanAxis0(rhowt)
              [] OTHER -> df[k]]

DistInit ==
    /\ d_fn \in {"sample_overlap", "correlated_sample"}
    /\ \E npartitions \in 1..MaxPart : \E nconf \in npartitions..MaxConf :
           d_sizes = split(nconf, npartitions)
    /\ d_task = [i \in DOMAIN d_sizes |-> "pending"]
    /\ d_result = [i \in DOMAIN d_sizes |-> <<>>]
    /\ d_i = 1
    /\ d_partial = <<>>
    /\ d_df = <<>>
    /\ d_pc = "gather"
    /\ d_ret = <<>>
    /\ d_joined = FALSE

\* A worker finishes its task with a result.
TaskReturns ==
    /\ \E i \in DOMAIN d_task :
           /\ d_task[i] = "pending"
           /\ d_task' = [d_task EXCEPT ![i] = "finished"]
           /\ \E r \in WorkerResults(d_fn) : d_result' = [d_result EXCEPT ![i] = r]
    /\ UNCHANGED <<d_fn, d_sizes, d_i, d_partial, d_df, d_pc, d_ret, d_joined>>
    /\ UNCHANGED <<drvVars, csVars, soVars, gVars, tVars>>

\* A worker's task raises.
TaskRaises ==
    /\ \E i \in DOMAIN d_task :
           /\ d_task[i] = "pending"
           /\ d_task' = [d_task EXCEPT ![i] = "failed"]
    /\ UNCHANGED <<d_fn, d_sizes, d_result, d_i, d_partial, d_df, d_pc, d_ret, d_joined>>
    /\ UNCHANGED <<drvVars, csVars, soVars, gVars, tVars>>

\* Lines 170 and 305: r.result() raises and the error leaves the wrapper.
FutureRaises ==
    /\ d_pc = "gather"
    /\ d_i <= Len(d_sizes)
    /\ d_task[d_i] # "pending"
    /\ Raises(d_task[d_i])
    /\ d_pc' = "raised"
    /\ UNCHANGED <<d_fn, d_sizes, d_task, d_result, d_i, d_partial, d_df, d_ret, d_joined>>
    /\ UNCHANGED <<drvVars, csVars, soVars, gVars, tVars>>

\* Lines 169-192: one pass of the loop of dist_sample_overlap.
DsoFold ==
    /\ d_fn = "sample_overlap"
    /\ d_pc = "gather"
    /\ d_i <= Len(d_sizes)
    /\ d_task[d_i] # "pending"
    /\ ~Raises(d_task[d_i])
    /\ d_df' = fold(d_df, rescale_weight(d_result[d_i], confweight(d_sizes)[d_i]),
                    confweight(d_sizes)[d_i], Len(d_sizes))
    /\ d_partial' = Append(d_partial, d_i)
    /\ d_i' = d_i + 1
    /\ UNCHANGED <<d_fn, d_sizes, d_task, d_result, d_pc, d_ret, d_joined>>
    /\ UNCHANGED <<drvVars, csVars, soVars, gVars, tVars>>

\* Lines 194-205
DsoReturn ==
    /\ d_fn = "sample_overlap"
    /\ d_pc = "gather"
    /\ d_i > Len(d_sizes)
    /\ d_df' = normalise(d_df, Len(d_sizes))
    /\ d_ret' = d_df'
    /\ d_joined' = TRUE
    /\ d_pc' = "returned"
    /\ UNCHANGED <<d_fn, d_sizes, d_task, d_result, d_i, d_partial>>
    /\ UNCHANGED <<drvVars, csVars, soVars, gVars, tVars>>

\* Line 305: one future of the list comprehension is resolved.
DcsCollect ==
    /\ d_fn = "correlated_sample"
    /\ d_pc = "gather"
    /\ d_i <= Len(d_sizes)
    /\ d_task[d_i] # "pending"
    /\ ~Raises(d_task[d_i])
    /\ d_partial' = Append(d_partial, d_i)
    /\ d_i' = d_i + 1
    /\ UNCHANGED <<d_fn, d_sizes, d_task, d_result, d_df, d_pc, d_ret, d_joined>>
    /\ UNCHANGED <<drvVars, csVars, soVars, gVars, tVars>>

\* Lines 306-319
DcsCombine ==
    /\ d_fn = "correlated_sample"
    /\ d_pc = "gather"
    /\ d_i > Len(d_sizes)
    /\ d_df' = combine(stack_results([j \in DOMAIN d_partial |-> d_result[d_partial[j]]]),
                       confweight(d_sizes))
    /\ d_ret' = d_df'
    /\ d_pc' = "returned"
    /\ UNCHANGED <<d_fn, d_sizes, d_task, d_result, d_i, d_partial, d_joined>>
    /\ UNCHANGED <<drvVars, csVars, soVars, gVars, tVars>>

DistNext ==
    \/ TaskReturns
    \/ TaskRaises
    \/ FutureRaises
    \/ DsoFold
    \/ DsoReturn
    \/ DcsCollect
    \/ DcsCombine

InitDist == DistInit /\ DrvIdle /\ CsIdle /\ SoIdle /\ GIdle /\ TIdle

NextDist == DistNext

SpecDist == InitDist /\ [][NextDist]_vars

\* The weight of the active wavefunction that partition i reported, rescaled
\* once by confweight[i].
RescaledOnce(i) ==
    QMul(LastColumn(d_result[i].weight)[1], confweight(d_sizes)[i])

\* sum_i(x_i * w_i) / sum_i(w_i) for entry e of quantity k, w_i the weight of
\* partition i rescaled once.
WeightedAverage(k, e) ==
    LET n == Len(d_sizes)
    IN  QDiv(QSum([i \in 1..n |-> QMul(d_result[i][k].data[e], RescaledOnce(i))], n),
             QSum([i \in 1..n |-> RescaledOnce(i)], n))

\* C4 as stated: what dist_sample_overlap returns for a quantity other than
\* weight, overlap and overlap_gradient is the weighted average of the
\* partitions' values, the weights being the partitions' weights rescaled
\* once; a value all partitions agree on is returned as it is.
C4_WeightedAverageOfPartitions ==
    (d_fn = "sample_overlap" /\ d_pc = "returned") =>
        \A k \in DOMAIN d_ret \ WeightKeys : \A e \in DOMAIN d_ret[k].data :
            /\ d_ret[k].data[e] = WeightedAverage(k, e)
            /\ (\A i \in DOMAIN d_sizes : d_result[i][k] = d_result[1][k])
                   => d_ret[k].data[e] = d_result[1][k].data[e]

C10_SinglePartitionSameResult ==
    (d_pc = "returned" /\ Len(d_sizes) = 1) => d_ret = d_result[1]

\* C13 as stated: on every exit path of correlated_sample, an error raised
\* while a candidate is evaluated included, the active wavefunction's
\* parameters are the parameters it had before the call.
C13_RestoredOnEveryExit ==
    cs_pc \in {"returned", "raised"} =>
        cs_wfs[2].parameters = cs_before.wfs[2].parameters

\* C16: no step of optimize_orthogonal changes the parameters of a reference
\* wavefunction wfs[0..n-2], so they stay what they were at the start of
\* the run; only the last wavefunction's parameters are modified.
C16_ReferencesUntouched ==
    [][\A i \in 1..NRef : wfs'[i] = wfs[i]]_vars

\* A finished run in which the line search moved the active wavefunction's
\* parameters away from the renormalized vector.
C16_Witness ==
    /\ pc = "done"
    /\ serialize_parameters(wfs[NWf]) # p_renorm
    /\ \A i \in 1..NRef : wfs[i].wf1det_coeff \in {2, 3}

-----------------------------------------------------------------------------
(* sample_overlap (lines 26-148): the acceptance steps of one Monte Carlo *)
(* step and the statistics that follow them, as far as the reference     *)
(* subtracted from the log-magnitudes goes.                              *)

LogMags == (-MaxLog)..MaxLog

\* np.array([wf.value()[1] for wf in wfs]): one row per wavefunction.
LogValues == [1..SoNWf -> [1..NWalkers -> LogMags]]

\* Line 80: ref = log_values[0]
acceptance_ref(log_values) == log_values[1]

\* Line 81: the argument of np.exp, 2 * (log_values - ref)
acceptance_exponent(log_values) ==
    [i \in 1..SoNWf |->
        [k \in 1..NWalkers |-> 2 * (log_values[i][k] - acceptance_ref(log_values)[k])]]

\* Line 98: ref = np.max(log_values[:, 1, :], axis=0)
block_ref(log_values) ==
    [k \in 1..NWalkers |->
        CHOOSE m \in {log_values[i][k] : i \in 1..SoNWf} :
            \A i \in 1..SoNWf : log_values[i][k] <= m]

\* Lines 48-57: the wavefunctions were recomputed on the ensemble.
SoInit ==
    /\ so_pc = "step"
    /\ so_e = 0
    /\ so_log_values \in LogValues
    /\ so_ref = <<>>
    /\ so_exponent = <<>>
    /\ so_block_ref = <<>>

\* Lines 61-93: one electron is proposed, accepted or rejected for every
\* walker, and the wavefunctions updated; the walkers that moved have new
\* log-magnitudes.
SoAcceptance ==
    /\ so_pc = "step"
    /\ so_e < NElec
    /\ so_ref' = acceptance_ref(so_log_values)
    /\ so_exponent' = acceptance_exponent(so_log_values)
    /\ so_log_values' \in LogValues
    /\ so_e' = so_e + 1
    /\ UNCHANGED <<so_pc, so_block_ref>>
    /\ UNCHANGED <<drvVars, csVars, distVars, gVars, tVars>>

\* Lines 96-113: the statistics of the step.
SoStatistics ==
    /\ so_pc = "step"
    /\ so_e = NElec
    /\ so_block_ref' = block_ref(so_log_values)
    /\ so_pc' = "saved"
    /\ UNCHANGED <<so_e, so_log_values, so_ref, so_exponent>>
    /\ UNCHANGED <<drvVars, csVars, distVars, gVars, tVars>>

SoNext ==
    \/ SoAcceptance
    \/ SoStatistics

InitSo == SoInit /\ DrvIdle /\ CsIdle /\ DistIdle /\ GIdle /\ TIdle

NextSo == SoNext

SpecSo == InitSo /\ [][NextSo]_vars

\* C15 as stated: the reference of the acceptance step is, for every walker,
\* the largest log-magnitude over the wavefunctions, and no exponent handed
\* to exp is positive.
C15_ReferenceIsMaximum ==
    so_e > 0 =>
        \A k \in 1..NWalkers :
            /\ \A i \in 1..SoNWf : so_exponent[i][k] <= 0
            /\ \E i \in 1..SoNWf : so_exponent[i][k] = 0

-----------------------------------------------------------------------------
(* optimize_orthogonal, lines 566-589: conditioning, projection, clipping *)
(* and the line-search candidates, for vectors of NParams exact           *)
(* rationals.  N_derivative is carried in units of 1e-8, so that the      *)
(* threshold of line 574 is 1.  The clipping factor max_step/deriv_norm   *)
(* is a square root: total_derivative is carried as g_total with the      *)
(* square of the factor beside it.                                        *)

QLess(a, b) == a[1] * b[2] < b[1] * a[2]

VDot(u, v) == QSum([k \in DOMAIN u |-> QMul(u[k], v[k])], Len(u))

VScale(u, q) == [k \in DOMAIN u |-> QMul(u[k], q)]

VSub(u, v) == [k \in DOMAIN u |-> QAdd(u[k], QMul(Q(-1, 1), v[k]))]

\* np.linalg.norm(v) ** 2
Norm2(v) == VDot(v, v)

\* Lines 566-570 for a diagonal condition, its entries in tenths:
\* np.linalg.inv(condition + 0.1 * np.eye(n)) applied to a vector.
conditioned(condition, v) ==
    [k \in DOMAIN v |-> QMul(v[k], Q(10, condition[k] + 1))]

\* Line 574: np.linalg.norm(N_derivative) > 1e-8
projectable(N_derivative) == QLess(Q(1, 1), Norm2(N_derivative))

\* A projection that leaves out the division by the squared norm.
project_unnormalised(total, N_derivative) ==
    IF projectable(N_derivative)
    THEN VSub(total, VScale(N_derivative, VDot(total, N_derivative)))
    ELSE total

\* Lines 574-579
project(total, N_derivative) ==
    IF projectable(N_derivative)
    THEN VSub(total, VScale(N_derivative,
                            QDiv(VDot(total, N_derivative), Norm2(N_derivative))))
    ELSE total

\* Lines 581-583: the square of the factor total_derivative is multiplied by.
clip_factor2(total, max_step) ==
    IF QLess(Q(max_step * max_step, 1), Norm2(total))
    THEN QDiv(Q(max_step * max_step, 1), Norm2(total))
    ELSE Q(1, 1)

\* pyqmc.linemin.sd_update(grad, Sij, step): the parameter delta of a step.
sd_update(grad, Sij, x) == VScale(grad, Q(-x, 1))

SampledDerivatives == [1..NParams -> {Q(n, 1) : n \in (-MaxGrad)..MaxGrad}]

SampledNDerivatives == [1..NParams -> {Q(0, 1), Q(1, 1), Q(2, 1)}]

\* Lines 494-547: the derivatives and the condition matrix as sampled.
GInit ==
    /\ g_pc = "sampled"
    /\ g_condition \in [1..NParams -> {4, 9}]
    /\ g_max_step \in {2}
    /\ g_total \in SampledDerivatives
    /\ g_N \in SampledNDerivatives
    /\ g_factor2 = Q(1, 1)
    /\ g_unprojected = <<>>
    /\ g_steps = <<>>

\* Lines 566-570
GCondition ==
    /\ g_pc = "sampled"
    /\ g_total' = conditioned(g_condition, g_total)
    /\ g_N' = conditioned(g_condition, g_N)
    /\ g_unprojected' = g_total'
    /\ g_pc' = "conditioned"
    /\ UNCHANGED <<g_condition, g_max_step, g_factor2, g_steps>>
    /\ UNCHANGED <<drvVars, csVars, distVars, soVars, tVars>>

\* Lines 574-579
GProject ==
    /\ g_pc = "conditioned"
    /\ g_total' = project(g_total, g_N)
    /\ g_pc' = "projected"
    /\ UNCHANGED <<g_condition, g_max_step, g_factor2, g_N, g_unprojected, g_steps>>
    /\ UNCHANGED <<drvVars, csVars, distVars, soVars, tVars>>

\* Lines 581-583
GClip ==
    /\ g_pc = "projected"
    /\ g_factor2' = clip_factor2(g_total, g_max_step)
    /\ g_pc' = "clipped"
    /\ UNCHANGED <<g_condition, g_max_step, g_total, g_N, g_unprojected, g_steps>>
    /\ UNCHANGED <<drvVars, csVars, distVars, soVars, tVars>>

\* Lines 585-589; the step committed at line 618 is one of these.
GCandidates ==
    /\ g_pc = "clipped"
    /\ g_steps' = [x \in test_tsteps |-> sd_update(g_total, g_condition, x)]
    /\ g_pc' = "candidates"
    /\ UNCHANGED <<g_condition, g_max_step, g_total, g_factor2, g_N, g_unprojected>>
    /\ UNCHANGED <<drvVars, csVars, distVars, soVars, tVars>>

GNext ==
    \/ GCondition
    \/ GProject
    \/ GClip
    \/ GCandidates

InitG == GInit /\ DrvIdle /\ CsIdle /\ DistIdle /\ SoIdle /\ TIdle

NextG == GNext

SpecG == InitG /\ [][NextG]_vars

\* C12: when the conditioned N_derivative has norm above 1e-8, the search
\* direction total_derivative after projection and clipping, and with it the
\* parameter delta of every line-search candidate, has zero dot product with
\* the conditioned N_derivative.
C12_DirectionOrthogonalToNorm ==
    (g_pc \in {"projected", "clipped", "candidates"} /\ projectable(g_N)) =>
        /\ QMul(g_factor2, QMul(VDot(g_total, g_N), VDot(g_total, g_N))) = Q(0, 1)
        /\ g_pc = "candidates" =>
               \A x \in test_tsteps : VDot(g_steps[x], g_N) = Q(0, 1)

\* Candidates built from a direction that the projection changed, that was
\* clipped, and that is not zero.
C12_Witness ==
    /\ g_pc = "candidates"
    /\ projectable(g_N)
    /\ VDot(g_unprojected, g_N) # Q(0, 1)
    /\ g_factor2 # Q(1, 1)
    /\ Norm2(g_total) # Q(0, 1)

-----------------------------------------------------------------------------
(* The tasks of one distributed call while they run: client.submit(fn,   *)
(* wfs, nodeconfigs, ...) at lines 158-159 and 301-303 hands every task   *)
(* the list wfs of the caller.  The wrappers make no copy of it; what a   *)
(* task works on is decided by the pool: a pool of worker processes       *)
(* pickles the arguments, so each task has a replica, and a pool whose    *)
(* workers are threads of the calling process calls fn on the caller's    *)
(* objects.  Object 0 is the caller's wfs[-1]; task i works on the        *)
(* sub-ensemble i.                                                        *)

Tasks == 1..NTasks

\* The object of wfs[-1] in task i.
submitted_wf(transport, i) == IF transport = "pickled" THEN i ELSE 0

\* The caller's wfs[-1] when the tasks are submitted: recomputed on the
\* whole ensemble, 0, by the step before.
SubmittedWavefunctions ==
    {recompute([parameters |-> [wf1det_coeff |-> c, wf1mo_coeff |-> 7],
                internals |-> <<>>], 0) : c \in {2, 3}}

TInit ==
    /\ t_fn \in {"sample_overlap", "correlated_sample"}
    /\ t_transport \in {"pickled", "by_reference"}
    /\ t_parameters \in (IF t_fn = "sample_overlap" THEN {<<>>} ELSE CandidateLists)
    /\ \E wf \in SubmittedWavefunctions : t_heap = [o \in 0..NTasks |-> wf]
    /\ t_wf = [i \in Tasks |-> submitted_wf(t_transport, i)]
    /\ t_pc = [i \in Tasks |-> "entry"]
    /\ t_p = [i \in Tasks |-> 0]
    /\ t_p0 = [i \in Tasks |-> <<>>]
    /\ t_seen = [i \in Tasks |-> <<>>]

\* correlated_sample, lines 237-260, in task i.
TCsEntry(i) ==
    /\ t_fn = "correlated_sample"
    /\ t_pc[i] = "entry"
    /\ t_p0' = [t_p0 EXCEPT ![i] = serialize_parameters(t_heap[t_wf[i]].parameters)]
    /\ t_heap' = [t_heap EXCEPT ![t_wf[i]] = recompute(@, i)]
    /\ t_p' = [t_p EXCEPT ![i] = 1]
    /\ t_pc' = [t_pc EXCEPT ![i] = IF t_parameters = <<>> THEN "restore" ELSE "install"]
    /\ UNCHANGED <<t_fn, t_transport, t_parameters, t_wf, t_seen>>

\* Lines 262-265 in task i.
TCsInstall(i) ==
    /\ t_pc[i] = "install"
    /\ t_heap' = [t_heap EXCEPT
                    ![t_wf[i]] = recompute(install(@, t_parameters[t_p[i]]), i)]
    /\ t_pc' = [t_pc EXCEPT ![i] = "evaluate"]
    /\ UNCHANGED <<t_fn, t_transport, t_parameters, t_wf, t_p, t_p0, t_seen>>

\* Lines 266-284 in task i: wf.value() and pgrad.enacc read the internals.
TCsEvaluate(i) ==
    /\ t_pc[i] = "evaluate"
    /\ t_seen' = [t_seen EXCEPT ![i] = t_heap[t_wf[i]].internals]
    /\ t_p' = [t_p EXCEPT ![i] = @ + 1]
    /\ t_pc' = [t_pc EXCEPT
                  ![i] = IF t_p[i] = Len(t_parameters) THEN "restore" ELSE "install"]
    /\ UNCHANGED <<t_fn, t_transport, t_parameters, t_heap, t_wf, t_p0>>

\* Lines 288-290 in task i.
TCsRestore(i) ==
    /\ t_pc[i] = "restore"
    /\ t_heap' = [t_heap EXCEPT ![t_wf[i]] = restore(@, t_p0[i])]
    /\ t_pc' = [t_pc EXCEPT ![i] = "done"]
    /\ UNCHANGED <<t_fn, t_transport, t_parameters, t_wf, t_p, t_p0, t_seen>>

\* sample_overlap, lines 54-55, in task i.
TSoRecompute(i) ==
    /\ t_fn = "sample_overlap"
    /\ t_pc[i] = "entry"
    /\ t_heap' = [t_heap EXCEPT ![t_wf[i]] = recompute(@, i)]
    /\ t_pc' = [t_pc EXCEPT ![i] = "step"]
    /\ UNCHANGED <<t_fn, t_transport, t_parameters, t_wf, t_p, t_p0, t_seen>>

\* sample_overlap, lines 63-96, in task i: gradient, testvalue and value
\* read the internals.
TSoStep(i) ==
    /\ t_pc[i] = "step"
    /\ t_seen' = [t_seen EXCEPT ![i] = t_heap[t_wf[i]].internals]
    /\ t_pc' = [t_pc EXCEPT ![i] = "done"]
    /\ UNCHANGED <<t_fn, t_transport, t_parameters, t_heap, t_wf, t_p, t_p0>>

TaskEntry ==
    /\ \E i \in Tasks : TCsEntry(i)
    /\ UNCHANGED <<drvVars, csVars, distVars, soVars, gVars>>

TaskInstall ==
    /\ \E i \in Tasks : TCsInstall(i)
    /\ UNCHANGED <<drvVars, csVars, distVars, soVars, gVars>>

TaskEvaluate ==
    /\ \E i \in Tasks : TCsEvaluate(i)
    /\ UNCHANGED <<drvVars, csVars, distVars, soVars, gVars>>

TaskRestore ==
    /\ \E i \in Tasks : TCsRestore(i)
    /\ UNCHANGED <<drvVars, csVars, distVars, soVars, gVars>>

TaskRecompute ==
    /\ \E i \in Tasks : TSoRecompute(i)
    /\ UNCHANGED <<drvVars, csVars, distVars, soVars, gVars>>

TaskStep ==
    /\ \E i \in Tasks : TSoStep(i)
    /\ UNCHANGED <<drvVars, csVars, distVars, soVars, gVars>>

TNext ==
    \/ TaskEntry
    \/ TaskInstall
    \/ TaskEvaluate
    \/ TaskRestore
    \/ TaskRecompute
    \/ TaskStep

InitT == TInit /\ DrvIdle /\ CsIdle /\ DistIdle /\ SoIdle /\ GIdle

NextT == TNext

SpecT == InitT /\ [][NextT]_vars

\* The internals task i has to read: those of its own sub-ensemble and of
\* the parameters it installed itself, the submitted ones with candidate p.
OwnInternals(i, submitted, p) ==
    [configs |-> i,
     parameters |-> IF p = 0 THEN submitted
                    ELSE AssignItems(submitted, deserialize(t_parameters[p]))]

\* C14 as stated: whatever the interleaving of the tasks of one distributed
\* call, a task reads only the parameters and cached values it installed
\* itself, and the driver's wavefunction is not modified by any task.
C14_TasksIsolated ==
    t_fn # "none" =>
        \E wf \in SubmittedWavefunctions :
            /\ t_heap[0] = wf
            /\ \A i \in Tasks :
                   /\ (t_fn = "correlated_sample" /\ t_p[i] > 1) =>
                          t_seen[i] = OwnInternals(i, wf.parameters, t_p[i] - 1)
                   /\ (t_fn = "sample_overlap" /\ t_pc[i] = "done") =>
                          t_seen[i] = OwnInternals(i, wf.parameters, 0)

====
